---- MODULE Spec2Model ----
(***************************************************************************)
(* Model of skysensestreamer/camera.py: the Camera, View and Airplane      *)
(* classes, with the clock (time()) they read.                             *)
(*                                                                         *)
(* Numbers.  Timestamps are integers.  Position components are exact      *)
(* rationals [n, d] (d = 0 is the not-a-number of a degenerate fit).       *)
(* Angles are binary floating-point numbers with a PrecBits-bit           *)
(* significand, written as integer multiples of the smallest unit, so     *)
(* that the rounding of Python's float arithmetic is part of the model.   *)
(***************************************************************************)
EXTENDS Integers, Sequences, FiniteSets, TLC

VARIABLES
    clock,              \* the value time() returns
    default_init_time,  \* the default of Airplane.__init__'s init_time parameter
    planes,             \* the Airplane objects, in order of construction
    appended,           \* per Airplane, every sample given to append_position (history)
    created,            \* per Airplane, the clock at construction and how init_time was given
    camera,             \* the Camera object
    view,               \* a View object on its own
    ret                 \* the outcome of the latest call

vars == <<clock, default_init_time, planes, appended, created, camera, view, ret>>

(* ------------------------------ bounds --------------------------------- *)
MaxTime == 2
MaxAppends == 4
MaxPlanes == 2
MaxClock == 2
MaxQuarter == 2
MaxTiny == 1
PrecBits == 4

Times == 0..MaxTime
\* creation times passed to Airplane(init_time): the epoch and a later time
InitTimes == {0, 1}
QueryTimes == 0..(MaxTime + 1)

\* Python's None; an attribute that may be None holds None or Some(value)
None == <<>>
Some(v) == <<v>>
Get(o) == o[1]

\* the outcome of the latest call: nothing yet, a returned value, or an exception
NoError == "no error"
NoCall == [op |-> "none", args |-> None, value |-> None, raised |-> NoError]
Return(op, args, value) == [op |-> op, args |-> args, value |-> value, raised |-> NoError]
Raise(op, args, exception) == [op |-> op, args |-> args, value |-> None, raised |-> exception]

(* ------------------------------ numbers -------------------------------- *)
Abs(x) == IF x < 0 THEN -x ELSE x

RECURSIVE Gcd(_, _)
Gcd(a, b) == IF b = 0 THEN a ELSE Gcd(b, a % b)

NaN == [n |-> 0, d |-> 0]

Rat(n, d) ==
    IF d = 0 THEN NaN
    ELSE LET g == Gcd(Abs(n), Abs(d))
             s == IF (n < 0) = (d < 0) THEN 1 ELSE -1
         IN  [n |-> s * (Abs(n) \div g), d |-> Abs(d) \div g]

Num(k) == Rat(k, 1)

(* ------------------------------ GPSCoord ------------------------------- *)
GPSCoord(lat, long, alt) == [latitude |-> lat, longitude |-> long, altitude |-> alt]

\* two reported positions that differ in latitude, longitude and altitude
Positions == {GPSCoord(Num(1), Num(1), Num(4)), GPSCoord(Num(2), Num(0), Num(7))}

Samples == Times \X Positions

(* --------------------------- util.extrapolate -------------------------- *)
RECURSIVE ProdExcept(_, _, _, _)
\* the product of (x - times[j]) over the j <= k other than i
ProdExcept(times, i, x, k) ==
    IF k = 0 THEN 1
    ELSE (IF k = i THEN 1 ELSE x - times[k]) * ProdExcept(times, i, x, k - 1)

RECURSIVE LagrangeSum(_, _, _, _)
\* the sum over i <= k of values[i] * prod_{j # i} (x - t_j) / (t_i - t_j),
\* as an unreduced fraction
LagrangeSum(times, values, x, k) ==
    IF k = 0 THEN [n |-> 0, d |-> 1]
    ELSE LET acc == LagrangeSum(times, values, x, k - 1)
             tn == values[k].n * ProdExcept(times, k, x, Len(times))
             td == values[k].d * ProdExcept(times, k, times[k], Len(times))
         IN  [n |-> acc.n * td + tn * acc.d, d |-> acc.d * td]

\* the fitted function: the interpolating polynomial of the samples, per axis
extrapolate(times, positions) == [times |-> times, positions |-> positions]

\* one axis of extrapolate_array(x), the value of the fitted function at x
extrapolate_axis(fit, x, axis) ==
    LET sum == LagrangeSum(fit.times,
                           [i \in 1..Len(fit.positions) |-> fit.positions[i][axis]],
                           x, Len(fit.times))
    IN  Rat(sum.n, sum.d)

(* ------------------------------ Airplane ------------------------------- *)
max_timestamped_positions == 3

NoFit == [times |-> <<>>, positions |-> <<>>]

\* a full buffer that drops its newest sample instead of its oldest
deque_append_evicts_newest(d, maxlen, x) ==
    IF Len(d) = maxlen THEN SubSeq(d, 1, Len(d) - 1) \o <<x>> ELSE Append(d, x)

\* collections.deque(maxlen=...).append
deque_append(d, maxlen, x) ==
    IF Len(d) = maxlen THEN Tail(d) \o <<x>> ELSE Append(d, x)

\* Airplane.__init__(init_time)
Airplane(init_time) ==
    [id |-> None,
     init_time |-> init_time,
     extrapolation |-> [kind |-> "default", fit |-> NoFit],
     timestamped_positions |-> <<>>]

\* the fitted function evaluated at the absolute time, init_time not subtracted
call_extrapolation_absolute_time(self, t) ==
    CASE self.extrapolation.kind = "default" -> GPSCoord(Num(0), Num(0), Num(0))
      [] self.extrapolation.kind = "first" -> self.timestamped_positions[1][2]
      [] self.extrapolation.kind = "fit" ->
            GPSCoord(extrapolate_axis(self.extrapolation.fit, t, 1),
                     extrapolate_axis(self.extrapolation.fit, t, 2),
                     extrapolate_axis(self.extrapolation.fit, t, 3))

\* self.extrapolation(t): the three lambdas of the class
call_extrapolation(self, t) ==
    CASE self.extrapolation.kind = "default" -> GPSCoord(Num(0), Num(0), Num(0))
      [] self.extrapolation.kind = "first" -> self.timestamped_positions[1][2]
      [] self.extrapolation.kind = "fit" ->
            GPSCoord(extrapolate_axis(self.extrapolation.fit, t - self.init_time, 1),
                     extrapolate_axis(self.extrapolation.fit, t - self.init_time, 2),
                     extrapolate_axis(self.extrapolation.fit, t - self.init_time, 3))

\* Airplane.position
position(self) == call_extrapolation(self, clock)

\* the constant branch taken for any number of samples (>= 1 for == 1)
update_extrapolation_always_first(self) ==
    [self EXCEPT !.extrapolation = [kind |-> "first", fit |-> NoFit]]

\* Airplane._update_extrapolation
update_extrapolation(self) ==
    LET buf == self.timestamped_positions
        times == [i \in 1..Len(buf) |-> buf[i][1] - self.init_time]
        positions == [i \in 1..Len(buf) |->
                        <<buf[i][2].latitude, buf[i][2].longitude, buf[i][2].altitude>>]
    IN  IF Len(times) = 1
        THEN [self EXCEPT !.extrapolation = [kind |-> "first", fit |-> NoFit]]
        ELSE [self EXCEPT !.extrapolation =
                            [kind |-> "fit", fit |-> extrapolate(times, positions)]]

\* the sample appended and the extrapolation left as it was
append_position_no_update(self, new_time, new_pos) ==
    [self EXCEPT !.timestamped_positions =
        deque_append(self.timestamped_positions, max_timestamped_positions,
                     <<new_time, new_pos>>)]

\* Airplane.append_position
append_position(self, new_time, new_pos) ==
    update_extrapolation(
        [self EXCEPT !.timestamped_positions =
            deque_append(self.timestamped_positions, max_timestamped_positions,
                         <<new_time, new_pos>>)])

(* --------------------------- float arithmetic -------------------------- *)
RECURSIVE Pow2(_)
Pow2(e) == IF e = 0 THEN 1 ELSE 2 * Pow2(e - 1)

RECURSIVE Quantum(_, _)
\* the spacing of the floats around magnitude a: the least 2^e >= q with
\* a < 2^PrecBits * 2^e
Quantum(a, q) == IF a < Pow2(PrecBits) * q THEN q ELSE Quantum(a, 2 * q)

\* the float nearest to the exact value x, ties to the even significand
fl(x) ==
    LET a == Abs(x)
        q == Quantum(a, 1)
        m == a \div q
        r == a - m * q
        up == \/ 2 * r > q
              \/ (2 * r = q /\ m % 2 = 1)
        rounded == IF up THEN (m + 1) * q ELSE m * q
    IN  IF x < 0 THEN -rounded ELSE rounded

IsFloat(x) == fl(x) = x

\* float.__sub__ and float.__add__
fsub(a, b) == fl(a - b)
fadd(a, b) == fl(a + b)

\* C fmod: exact, with the sign of x
fmod(x, y) == IF x < 0 THEN -(Abs(x) % Abs(y)) ELSE Abs(x) % Abs(y)

\* float.__mod__ (CPython float_rem), for a divisor wx # 0
float_rem(vx, wx) ==
    LET mod == fmod(vx, wx)
    IN  IF mod # 0
        THEN IF (wx < 0) # (mod < 0) THEN fadd(mod, wx) ELSE mod
        ELSE 0

\* math.pi, in units of the smallest float of the model
Pi == 24
HalfPi == Pi \div 2
TwoPi == 2 * Pi

\* angles given to the model: tiny ones around zero and multiples of pi/2
Angles == (-MaxTiny..MaxTiny) \cup {k * HalfPi : k \in -1..MaxQuarter}
ViewAngles == {k * HalfPi : k \in 0..MaxQuarter}

(* ------------------------------ LocalCoord ----------------------------- *)
LocalCoord(altitude_angle, azimuth, distance) ==
    [altitude_angle |-> altitude_angle, azimuth |-> azimuth, distance |-> distance]

LocalCoords == {LocalCoord(al, az, 0) : al \in Angles, az \in Angles}

\* GPSCoord.to_local(target): the local coordinates it may return (the
\* trigonometry is left open: any angles, at any distance)
to_local(self, target) == LocalCoords

(* -------------------------------- View --------------------------------- *)
\* View.__init__
View(upper_bound, lower_bound, left_bound, right_bound) ==
    [upper_bound |-> upper_bound, lower_bound |-> lower_bound,
     left_bound |-> left_bound, right_bound |-> right_bound]

Views == {View(u, l, le, r) : u \in ViewAngles, l \in ViewAngles,
                              le \in ViewAngles, r \in ViewAngles}

\* the wrapping test with "and" for "or"
contains_wrap_and(self, pos) ==
    IF self.upper_bound <= pos.altitude_angle /\ pos.altitude_angle <= self.lower_bound
    THEN IF self.left_bound <= pos.azimuth /\ pos.azimuth <= self.right_bound
         THEN TRUE
         ELSE IF /\ self.left_bound >= self.right_bound
                 /\ (self.left_bound <= pos.azimuth /\ pos.azimuth <= self.right_bound)
              THEN TRUE
              ELSE FALSE
    ELSE FALSE

\* View.contains
contains(self, pos) ==
    IF self.upper_bound <= pos.altitude_angle /\ pos.altitude_angle <= self.lower_bound
    THEN IF self.left_bound <= pos.azimuth /\ pos.azimuth <= self.right_bound
         THEN TRUE
         ELSE IF /\ self.left_bound >= self.right_bound
                 /\ (self.left_bound <= pos.azimuth \/ pos.azimuth <= self.right_bound)
              THEN TRUE
              ELSE FALSE
    ELSE FALSE

(* ------------------------------- Camera -------------------------------- *)
\* Camera.__init__
NoCamera == [gps_position |-> None, tracked_airplane |-> None, direction |-> None,
             view |-> None, airplanes |-> <<>>]

\* Camera.to_servo: None - float raises TypeError
to_servo(self, lc) ==
    IF self.direction = None
    THEN Raise("to_servo", lc, "TypeError")
    ELSE Return("to_servo", lc,
                <<float_rem(fsub(Get(self.direction), lc.azimuth), TwoPi),
                  fsub(HalfPi, lc.altitude_angle)>>)

\* a view that is not set taken as a view that contains nothing
can_see_default_view(self, plane) ==
    IF self.gps_position = None
    THEN {Raise("can_see", None, "AttributeError")}
    ELSE {IF self.view = None
          THEN Return("can_see", None, FALSE)
          ELSE Return("can_see", None, contains(Get(self.view), plane_local)) :
             plane_local \in LocalCoords}

\* Camera.can_see: the outcomes it may have; an attribute of None raises
can_see(self, plane) ==
    IF self.gps_position = None
    THEN {Raise("can_see", None, "AttributeError")}
    ELSE {IF self.view = None
          THEN Raise("can_see", None, "AttributeError")
          ELSE Return("can_see", None, contains(Get(self.view), plane_local)) :
             plane_local \in to_local(Get(self.gps_position), position(plane))}

(* ------------------------------ actions -------------------------------- *)
\* time() advances between calls
Tick ==
    /\ clock < MaxClock
    /\ clock' = clock + 1
    /\ UNCHANGED <<default_init_time, planes, appended, created, camera, view, ret>>

AppendPosition ==
    \E i \in 1..Len(planes), s \in Samples :
        /\ Len(appended[i]) < MaxAppends
        /\ planes' = [planes EXCEPT ![i] = append_position(planes[i], s[1], s[2])]
        /\ appended' = [appended EXCEPT ![i] = Append(appended[i], s)]
        /\ ret' = NoCall
        /\ UNCHANGED <<clock, default_init_time, created, camera, view>>

\* one Airplane(init_time), constructed with an explicit creation time
InitAirplane ==
    /\ clock = 0
    /\ default_init_time = 0
    /\ \E t \in InitTimes : planes = <<Airplane(t)>>
    /\ appended = <<(<<>>)>>
    /\ created = <<[at |-> 0, explicit |-> TRUE]>>
    /\ camera = NoCamera
    /\ view = None
    /\ ret = NoCall

NextAirplane == AppendPosition

Spec == InitAirplane /\ [][NextAirplane]_vars

(* ------------------- construction of Airplane objects ------------------ *)
\* Airplane(): the default of init_time was evaluated when the class body ran
NewAirplaneDefault ==
    /\ Len(planes) < MaxPlanes
    /\ planes' = Append(planes, Airplane(default_init_time))
    /\ appended' = Append(appended, <<>>)
    /\ created' = Append(created, [at |-> clock, explicit |-> FALSE])
    /\ ret' = NoCall
    /\ UNCHANGED <<clock, default_init_time, camera, view>>

\* Airplane(init_time=t)
NewAirplaneExplicit ==
    \E t \in InitTimes :
        /\ Len(planes) < MaxPlanes
        /\ planes' = Append(planes, Airplane(t))
        /\ appended' = Append(appended, <<>>)
        /\ created' = Append(created, [at |-> clock, explicit |-> TRUE])
        /\ ret' = NoCall
        /\ UNCHANGED <<clock, default_init_time, camera, view>>

\* plane.position
Position ==
    \E i \in 1..Len(planes) :
        /\ ret' = Return("position", [plane |-> i,
                                      samples |-> Len(planes[i].timestamped_positions)],
                         position(planes[i]))
        /\ UNCHANGED <<clock, default_init_time, planes, appended, created, camera, view>>

\* the module has just been imported: the def statement of Airplane.__init__
\* has run time() for the default of init_time
InitImport ==
    /\ clock = 0
    /\ default_init_time = clock
    /\ planes = <<>>
    /\ appended = <<>>
    /\ created = <<>>
    /\ camera = NoCamera
    /\ view = None
    /\ ret = NoCall

NextConstruct == Tick \/ NewAirplaneDefault \/ NewAirplaneExplicit \/ Position

SpecConstruct == InitImport /\ [][NextConstruct]_vars

(* -------------------------------- views -------------------------------- *)
ViewContains ==
    \E lc \in LocalCoords :
        /\ ret' = Return("contains", lc, contains(view, lc))
        /\ UNCHANGED <<clock, default_init_time, planes, appended, created, camera, view>>

\* one View(upper_bound, lower_bound, left_bound, right_bound)
InitView ==
    /\ clock = 0
    /\ default_init_time = 0
    /\ planes = <<>>
    /\ appended = <<>>
    /\ created = <<>>
    /\ camera = NoCamera
    /\ view \in Views
    /\ ret = NoCall

NextView == ViewContains

SpecView == InitView /\ [][NextView]_vars

(* ------------------------------- cameras ------------------------------- *)
\* camera.gps_position = GPSCoord(...)
SetGpsPosition ==
    \E g \in Positions :
        /\ camera' = [camera EXCEPT !.gps_position = Some(g)]
        /\ ret' = NoCall
        /\ UNCHANGED <<clock, default_init_time, planes, appended, created, view>>

\* camera.view = View(...)
SetView ==
    \E v \in Views :
        /\ camera' = [camera EXCEPT !.view = Some(v)]
        /\ ret' = NoCall
        /\ UNCHANGED <<clock, default_init_time, planes, appended, created, view>>

\* camera.direction = angle
SetDirection ==
    \E d \in Angles :
        /\ camera' = [camera EXCEPT !.direction = Some(d)]
        /\ ret' = NoCall
        /\ UNCHANGED <<clock, default_init_time, planes, appended, created, view>>

CanSee ==
    \E i \in 1..Len(planes) :
        /\ ret' \in can_see(camera, planes[i])
        /\ UNCHANGED <<clock, default_init_time, planes, appended, created, camera, view>>

ToServo ==
    \E lc \in LocalCoords :
        /\ ret' = to_servo(camera, lc)
        /\ UNCHANGED <<clock, default_init_time, planes, appended, created, camera, view>>

\* one Camera() and one Airplane(init_time) to look for
InitCamera ==
    /\ clock = 0
    /\ default_init_time = 0
    /\ \E t \in InitTimes : planes = <<Airplane(t)>>
    /\ appended = <<(<<>>)>>
    /\ created = <<[at |-> 0, explicit |-> TRUE]>>
    /\ camera = NoCamera
    /\ view = None
    /\ ret = NoCall

NextCamera == SetGpsPosition \/ SetView \/ CanSee

SpecCamera == InitCamera /\ [][NextCamera]_vars

NextServo == SetDirection \/ ToServo

SpecServo == InitCamera /\ [][NextServo]_vars

(* ------------------------- claims on Airplane -------------------------- *)
\* the last k elements of a sequence, in order
LastK(seq, k) ==
    IF Len(seq) <= k THEN seq ELSE SubSeq(seq, Len(seq) - k + 1, Len(seq))

RECURSIVE Replay(_, _)
\* an aircraft after append_position of each sample of seq, in order
Replay(self, seq) ==
    IF seq = <<>> THEN self
    ELSE Replay(append_position(self, Head(seq)[1], Head(seq)[2]), Tail(seq))

\* the estimate at time t that the samples of buf alone determine
EstimateFrom(buf, init_time, t) ==
    IF Len(buf) = 1 THEN buf[1][2]
    ELSE LET xs == [i \in 1..Len(buf) |-> buf[i][1] - init_time]
             ys == [i \in 1..Len(buf) |->
                      <<buf[i][2].latitude, buf[i][2].longitude, buf[i][2].altitude>>]
             fit == [times |-> xs, positions |-> ys]
         IN  GPSCoord(extrapolate_axis(fit, t - init_time, 1),
                      extrapolate_axis(fit, t - init_time, 2),
                      extrapolate_axis(fit, t - init_time, 3))

\* C3: the buffer holds at most 3 samples, and they are exactly the most
\* recent min(n, 3) appended (timestamp, position) pairs in arrival order.
C3_BufferIsLastThree ==
    \A i \in 1..Len(planes) :
        /\ Len(planes[i].timestamped_positions) <= 3
        /\ planes[i].timestamped_positions = LastK(appended[i], 3)

\* a fourth append has evicted a sample that is no longer in the buffer
C3_Witness ==
    \E i \in 1..Len(planes) :
        /\ Len(appended[i]) = 4
        /\ \A k \in 1..3 : planes[i].timestamped_positions[k] # appended[i][1]

\* C5: after every append the estimate at every query time is the one the
\* samples now in the buffer determine, and the aircraft is in the state (so
\* gives the estimates) of an aircraft of the same creation time that was only
\* ever given the latest 3 samples.
C5_EstimateFromBufferOnly ==
    \A i \in 1..Len(planes) :
        Len(appended[i]) >= 1 =>
            /\ \A t \in QueryTimes :
                  call_extrapolation(planes[i], t)
                    = EstimateFrom(planes[i].timestamped_positions, planes[i].init_time, t)
            /\ planes[i] = Replay(Airplane(planes[i].init_time), LastK(appended[i], 3))

\* four appends at three distinct latest timestamps; the evicted sample would
\* have changed the estimate had it been kept in place of the newest one
C5_Witness ==
    \E i \in 1..Len(planes) :
        /\ Len(appended[i]) = 4
        /\ Cardinality({appended[i][k][1] : k \in 2..4}) = 3
        /\ \E t \in QueryTimes :
              /\ call_extrapolation(planes[i], t).latitude.d # 0
              /\ call_extrapolation(planes[i], t)
                   # EstimateFrom(SubSeq(appended[i], 1, 3), planes[i].init_time, t)

\* C6: with exactly one buffered sample (t0, P0) the estimate at every query
\* time, before or after t0, is exactly P0.
C6_OneSampleConstant ==
    \A i \in 1..Len(planes) :
        Len(planes[i].timestamped_positions) = 1 =>
            \A t \in QueryTimes :
                call_extrapolation(planes[i], t) = planes[i].timestamped_positions[1][2]

\* one sample, with query times on both sides of its timestamp
C6_Witness ==
    \E i \in 1..Len(planes) :
        /\ Len(appended[i]) = 1
        /\ planes[i].extrapolation.kind = "first"
        /\ \E t1, t2 \in QueryTimes :
              t1 < appended[i][1][1] /\ appended[i][1][1] < t2

\* two buffered samples at distinct timestamps and with positions that differ
\* in latitude, longitude and altitude
TwoDistinctSamples(self) ==
    LET buf == self.timestamped_positions
    IN  /\ Len(buf) = 2
        /\ buf[1][1] # buf[2][1]
        /\ buf[1][2].latitude # buf[2][2].latitude
        /\ buf[1][2].longitude # buf[2][2].longitude
        /\ buf[1][2].altitude # buf[2][2].altitude

\* C9: with two samples at distinct timestamps and distinct positions, the
\* estimate at each sample's timestamp is that sample's position.
C9_ExactAtNodes ==
    \A i \in 1..Len(planes) :
        TwoDistinctSamples(planes[i]) =>
            \A k \in 1..2 :
                call_extrapolation(planes[i], planes[i].timestamped_positions[k][1])
                    = planes[i].timestamped_positions[k][2]

\* two such samples on an aircraft whose creation time is not zero
C9_Witness ==
    \E i \in 1..Len(planes) :
        /\ TwoDistinctSamples(planes[i])
        /\ planes[i].extrapolation.kind = "fit"
        /\ planes[i].init_time # 0

(* --------------------------- claims on View ---------------------------- *)
InBand(self, pos) ==
    self.upper_bound <= pos.altitude_angle /\ pos.altitude_angle <= self.lower_bound

\* C1: for a view whose azimuth bounds do not wrap (left_bound <= right_bound,
\* left_bound = right_bound included), contains returns true if and only if the
\* altitude is in the band and left_bound <= azimuth <= right_bound.
C1_NonWrapping ==
    (ret.op = "contains" /\ view.left_bound <= view.right_bound) =>
        (ret.value = (/\ InBand(view, ret.args)
                      /\ view.left_bound <= ret.args.azimuth
                      /\ ret.args.azimuth <= view.right_bound))

\* C2: for a view whose azimuth bounds wrap (left_bound > right_bound),
\* contains returns true if and only if the altitude is in the band and the
\* azimuth is >= left_bound or <= right_bound.
C2_Wrapping ==
    (ret.op = "contains" /\ view.left_bound > view.right_bound) =>
        (ret.value = (/\ InBand(view, ret.args)
                      /\ (\/ ret.args.azimuth >= view.left_bound
                          \/ ret.args.azimuth <= view.right_bound)))

\* a wrapping view has contained an azimuth below its left bound
C2_Witness ==
    /\ ret.op = "contains"
    /\ view.left_bound > view.right_bound
    /\ ret.value = TRUE
    /\ ret.args.azimuth < view.left_bound

(* ------------------------ claims on construction ----------------------- *)
\* C4: estimating the position of an aircraft with zero samples fails with an
\* error; it never returns a position.
C4_EmptyHistoryFails ==
    (ret.op = "position" /\ ret.args.samples = 0) => ret.raised # NoError

\* C10: an Airplane constructed without an explicit init_time has the clock
\* value of its construction as init_time, so two such aircraft constructed at
\* different clock times have different creation times.
C10_InitTimeIsConstructionTime ==
    /\ \A i \in 1..Len(planes) :
          ~created[i].explicit => planes[i].init_time = created[i].at
    /\ \A i, j \in 1..Len(planes) :
          (/\ ~created[i].explicit
           /\ ~created[j].explicit
           /\ created[i].at # created[j].at) =>
              planes[i].init_time # planes[j].init_time

(* -------------------------- claims on Camera --------------------------- *)
\* C7: can_see raises whenever the camera's gps_position or its view is not
\* set; it returns no boolean then.
C7_UninitializedFails ==
    (ret.op = "can_see" /\ (camera.gps_position = None \/ camera.view = None)) =>
        ret.raised # NoError

\* can_see has raised on a camera whose position is set and whose view is not
C7_Witness ==
    /\ ret.op = "can_see"
    /\ camera.gps_position # None
    /\ camera.view = None
    /\ ret.raised = "AttributeError"

\* C8: the pan angle of to_servo lies in [0, 2*pi) and is (direction - azimuth)
\* mod 2*pi (whenever that difference and its remainder are floats); the tilt
\* is pi/2 - altitude_angle.
C8_PanInHalfOpenRange ==
    (ret.op = "to_servo" /\ ret.raised = NoError) =>
        LET difference == Get(camera.direction) - ret.args.azimuth
        IN  /\ 0 <= ret.value[1]
            /\ ret.value[1] < TwoPi
            /\ (IsFloat(difference) /\ IsFloat(difference % TwoPi)) =>
                  ret.value[1] = difference % TwoPi
            /\ ret.value[2] = fsub(HalfPi, ret.args.altitude_angle)

====
